---- MODULE Spec2Model ----
(***************************************************************************)
(* Model of app/client/api.ts: the header builder getHeaders and the       *)
(* ClientApi facade (constructor and share).                               *)
(*                                                                         *)
(* Strings that the code inspects or reshapes (startsWith, trim, template  *)
(* concatenation in makeBearer) are sequences of one-character strings, so *)
(* that prefix tests and trimming are computed and not assumed.  Strings   *)
(* that are only copied or concatenated (message contents, the share URL)  *)
(* are TLA+ strings.                                                       *)
(***************************************************************************)
EXTENDS Integers, Sequences, FiniteSets, TLC

VARIABLES
    accessStore,    \* useAccessStore.getState(), as read by getHeaders
    modelConfig,    \* useChatStore.getState().currentSession().mask.modelConfig
    ignoreHeaders,  \* the argument of the last getHeaders call
    headers,        \* the mapping returned by the last getHeaders call
    hpc,            \* "idle" before the first getHeaders call, then "returned"
    clientConfig,   \* getClientConfig(), as read by share
    selector,       \* the argument the ClientApi constructor was given
    llm,            \* ClientApi.llm
    file,           \* ClientApi.file
    spc,            \* position of the share call
    shareArgs,      \* the arguments of the share call in progress
    request,        \* the fetch request share has issued
    response,       \* the response body the endpoint has sent
    result          \* how the promise returned by share settled

hvars == <<accessStore, modelConfig, ignoreHeaders, headers, hpc>>
cvars == <<clientConfig, selector, llm, file, spc, shareArgs, request, response, result>>
vars == <<accessStore, modelConfig, ignoreHeaders, headers, hpc,
          clientConfig, selector, llm, file, spc, shareArgs, request, response, result>>

(***************************************************************************)
(* JavaScript values                                                       *)
(***************************************************************************)
\* undefined, for a string-valued slot (a sequence no string equals)
Undefined == <<"undefined">>

\* String.prototype.trim's white space, restricted to the alphabet used
IsSpace(c) == c \in {" ", "\t", "\n"}

RECURSIVE TrimStart(_)
TrimStart(s) ==
    IF s = <<>> THEN <<>>
    ELSE IF IsSpace(Head(s)) THEN TrimStart(Tail(s)) ELSE s

RECURSIVE TrimEnd(_)
TrimEnd(s) ==
    IF s = <<>> THEN <<>>
    ELSE IF IsSpace(s[Len(s)]) THEN TrimEnd(SubSeq(s, 1, Len(s) - 1)) ELSE s

\* s.trim()
Trim(s) == TrimEnd(TrimStart(s))

\* s.startsWith(p)
StartsWith(s, p) == Len(s) >= Len(p) /\ SubSeq(s, 1, Len(p)) = p

\* !x for an optional boolean argument
Falsy(b) == b \in {"undefined", "false"}

(***************************************************************************)
(* Literals of getHeaders                                                  *)
(***************************************************************************)
GeminiPrefix == <<"g", "e", "m", "i", "n", "i">>
BearerPrefix == <<"B", "e", "a", "r", "e", "r", " ">>
ApplicationJson ==
    <<"a", "p", "p", "l", "i", "c", "a", "t", "i", "o", "n", "/", "j", "s", "o", "n">>
XMLHttpRequest ==
    <<"X", "M", "L", "H", "t", "t", "p", "R", "e", "q", "u", "e", "s", "t">>
\* imported from ../constant
ACCESS_CODE_PREFIX == <<"n", "k", "-">>
ServiceProviderAzure == "Azure"

HeaderNames ==
    {"Content-Type", "x-requested-with", "Accept",
     "Authorization", "x-goog-api-key", "api-key"}
CredentialHeaders == {"Authorization", "x-goog-api-key", "api-key"}

\* let headers: Record<string, string> = {}
EmptyHeaders == [h \in HeaderNames |-> Undefined]

BaselineHeaders ==
    [h \in HeaderNames |->
        CASE h = "Content-Type" -> ApplicationJson
          [] h = "x-requested-with" -> XMLHttpRequest
          [] h = "Accept" -> ApplicationJson
          [] OTHER -> Undefined]

(***************************************************************************)
(* getHeaders                                                              *)
(***************************************************************************)
isGoogle(store, config) ==
    StartsWith(config.model, GeminiPrefix) /\ ~store.isUseOpenAIEndpointForAllModels

isAzure(store) == store.provider = ServiceProviderAzure

apiKey(store, config) ==
    IF isGoogle(store, config) THEN store.googleApiKey
    ELSE IF isAzure(store) THEN store.azureApiKey
    ELSE store.openaiApiKey

\* makeBearer that forgets the Azure exemption from the "Bearer " prefix
makeBearerAzureBearer(store, config, s) ==
    (IF StartsWith(config.model, GeminiPrefix) /\ ~store.isUseOpenAIEndpointForAllModels
     THEN <<>> ELSE BearerPrefix) \o Trim(s)

makeBearer(store, config, s) ==
    (IF isGoogle(store, config) \/ isAzure(store) THEN <<>> ELSE BearerPrefix) \o Trim(s)

validString(x) == x # Undefined /\ Len(x) > 0

\* InitialHeaders that takes an omitted flag for a set one
InitialHeadersStrictFalse(ignore, store, config) ==
    IF ignore = "false" /\ ~isGoogle(store, config) THEN BaselineHeaders ELSE EmptyHeaders

\* the baseline headers, unless suppressed or Gemini-resolved
InitialHeaders(ignore, store, config) ==
    IF Falsy(ignore) /\ ~isGoogle(store, config) THEN BaselineHeaders ELSE EmptyHeaders

\* KeyAuthHeader that never switches to the vendor-specific name
KeyAuthHeaderGeneric(store, config) == "Authorization"

\* authHeader inside the personal-key branch
KeyAuthHeader(store, config) ==
    IF isGoogle(store, config) THEN "x-goog-api-key" ELSE "Authorization"

\* the branch "use user's api key first"
WithApiKey(h, store, config) ==
    LET h1 == [h EXCEPT ![KeyAuthHeader(store, config)] =
                   makeBearer(store, config, apiKey(store, config))]
    IN  IF isAzure(store)
        THEN [h1 EXCEPT !["api-key"] = makeBearer(store, config, apiKey(store, config))]
        ELSE h1

\* WithAccessCode that files the access code under the model-resolved header name
WithAccessCodeResolvedName(h, store, config) ==
    [h EXCEPT ![KeyAuthHeader(store, config)] =
        makeBearer(store, config, ACCESS_CODE_PREFIX \o store.accessCode)]

\* the else-if branch: the access code, under the initial authHeader
WithAccessCode(h, store, config) ==
    [h EXCEPT !["Authorization"] =
        makeBearer(store, config, ACCESS_CODE_PREFIX \o store.accessCode)]

\* getHeaders that tries the access code before the personal key
getHeadersAccessCodeFirst(ignore, store, config) ==
    LET h0 == InitialHeaders(ignore, store, config)
    IN  IF store.enabledAccessControl /\ validString(store.accessCode)
        THEN WithAccessCode(h0, store, config)
        ELSE IF validString(apiKey(store, config))
        THEN WithApiKey(h0, store, config)
        ELSE h0

\* getHeaders that sends the access code whether or not access control is enabled
getHeadersUncheckedAccess(ignore, store, config) ==
    LET h0 == InitialHeaders(ignore, store, config)
    IN  IF validString(apiKey(store, config))
        THEN WithApiKey(h0, store, config)
        ELSE IF validString(store.accessCode)
        THEN WithAccessCode(h0, store, config)
        ELSE h0

getHeaders(ignore, store, config) ==
    LET h0 == InitialHeaders(ignore, store, config)
    IN  IF validString(apiKey(store, config))
        THEN WithApiKey(h0, store, config)
        ELSE IF store.enabledAccessControl /\ validString(store.accessCode)
        THEN WithAccessCode(h0, store, config)
        ELSE h0

(***************************************************************************)
(* Inputs of getHeaders                                                    *)
(***************************************************************************)
ModelNames ==
    { <<"g", "e", "m", "i", "n", "i">>,
      <<"g", "e", "m", "i", "n", "i", "-", "p", "r", "o">>,
      <<"g", "e", "m", "i", "n">>,
      <<"x", "g", "e", "m", "i", "n", "i">>,
      <<"g", "p", "t", "-", "4">> }

\* the values a key slot takes: unset, empty, blank, a key, a padded key
KeyValues(c) == { Undefined, <<>>, <<" ">>, <<c>>, <<" ", c, " ">> }

AccessCodes == { Undefined, <<>>, <<"c">>, <<"c", " ">> }

ServiceProviders == { "OpenAI", "Azure", "Google" }

AccessStores ==
    [ isUseOpenAIEndpointForAllModels : BOOLEAN,
      provider : ServiceProviders,
      googleApiKey : KeyValues("g"),
      azureApiKey : KeyValues("a"),
      openaiApiKey : KeyValues("o"),
      enabledAccessControl : BOOLEAN,
      accessCode : AccessCodes ]

ModelConfigs == [ model : ModelNames ]

IgnoreHeadersArgs == { "undefined", "false", "true" }

HInit ==
    /\ accessStore \in AccessStores
    /\ modelConfig \in ModelConfigs
    /\ ignoreHeaders = "undefined"
    /\ headers = EmptyHeaders
    /\ hpc = "idle"

(***************************************************************************)
(* ClientApi                                                               *)
(***************************************************************************)
\* longest message list handed to share
MaxMessages == 2

\* ModelProvider, and "undefined" for an omitted constructor argument
ModelProviders == { "GPT", "GeminiPro", "Claude", "Stability" }
SelectorArgs == ModelProviders \cup { "undefined" }

\* constructor(provider: ModelProvider = ModelProvider.GPT)
DefaultProvider(arg) == IF arg = "undefined" THEN "GPT" ELSE arg

\* the switch that forgets the Claude case
ProviderClientNoClaude(provider) ==
    CASE provider = "GeminiPro" -> "GeminiProApi"
      [] OTHER -> "ChatGPTApi"

\* switch (provider) of the constructor
ProviderClient(provider) ==
    CASE provider = "GeminiPro" -> "GeminiProApi"
      [] provider = "Claude" -> "ClaudeApi"
      [] OTHER -> "ChatGPTApi"

ROLES == { "system", "user", "assistant" }
Contents == { "hi", "hello" }
ChatMessages == [ role : ROLES, content : Contents ]

RECURSIVE SeqsUpTo(_, _)
SeqsUpTo(S, n) ==
    IF n = 0 THEN { <<>> }
    ELSE LET shorter == SeqsUpTo(S, n - 1)
         IN  shorter \cup { Append(q, x) : q \in shorter, x \in S }

MessageLists == SeqsUpTo(ChatMessages, MaxMessages)

\* avatarUrl: string | null = null; "undefined" is the omitted argument
AvatarArgs == { "undefined", "null", "avatar.png" }
DefaultAvatar(arg) == IF arg = "undefined" THEN "null" ELSE arg

Attribution ==
    [ from |-> "human",
      value |-> "Share from [NextChat]: https://github.com/Yidadaa/ChatGPT-Next-Web" ]

\* the renaming that sends only assistant messages as "gpt"
ShareFromAssistantOnly(role) == IF role = "assistant" THEN "gpt" ELSE "human"

\* from: m.role === "user" ? "human" : "gpt"
ShareFrom(role) == IF role = "user" THEN "human" ELSE "gpt"

\* messages.map(...).concat([attribution])
ShareItems(messages) ==
    [ i \in 1..Len(messages) |->
        [ from |-> ShareFrom(messages[i].role), value |-> messages[i].content ] ]
    \o << Attribution >>

\* getClientConfig(): absent, the packaged app, or the web build
ClientConfigs == { "undefined", "app", "web" }

\* clientConfig?.isApp ? rawUrl : proxyUrl
ShareEndpoint(config) ==
    IF config = "app" THEN "https://sharegpt.com/api/conversations" ELSE "/sharegpt"

\* the argument of fetch; body is the value handed to JSON.stringify
ShareRequest(config, messages, avatarUrl) ==
    [ url |-> ShareEndpoint(config),
      method |-> "POST",
      contentType |-> "application/json",
      body |-> [ avatarUrl |-> avatarUrl, items |-> ShareItems(messages) ] ]

NoRequest ==
    [ url |-> "", method |-> "", contentType |-> "",
      body |-> [ avatarUrl |-> "", items |-> <<>> ] ]
NoArgs == [ messages |-> <<>>, avatarUrl |-> "undefined" ]

\* the value of resJson.id: absent, a string or a number
IdUndefined == [ type |-> "undefined", str |-> "", num |-> 0 ]
IdString(v) == [ type |-> "string", str |-> v, num |-> 0 ]
IdNumber(n) == [ type |-> "number", str |-> "", num |-> n ]
IdValues == { IdUndefined, IdString(""), IdString("abc123"), IdNumber(0), IdNumber(7) }

\* what the endpoint answers: no answer (the fetch fails), a body that is not
\* JSON, the JSON value null, a JSON number, or a JSON object with or without id
NoResponse == [ kind |-> "pending", id |-> IdUndefined ]
NetworkError == [ kind |-> "networkError", id |-> IdUndefined ]
ResponseBodies ==
    { [ kind |-> "invalid", id |-> IdUndefined ],
      [ kind |-> "null", id |-> IdUndefined ],
      [ kind |-> "number", id |-> IdUndefined ] }
    \cup { [ kind |-> "object", id |-> v ] : v \in IdValues }

\* if (x)
Truthy(v) ==
    \/ v.type = "string" /\ v.str # ""
    \/ v.type = "number" /\ v.num # 0

\* ${x}
TemplateString(v) ==
    CASE v.type = "string" -> v.str
      [] v.type = "number" -> ToString(v.num)
      [] OTHER -> "undefined"

\* how the promise returned by share settles
Pending == [ state |-> "pending", type |-> "undefined", value |-> "" ]
Fulfilled(v) == [ state |-> "fulfilled", type |-> "string", value |-> v ]
FulfilledUndefined == [ state |-> "fulfilled", type |-> "undefined", value |-> "" ]
Rejected(e) == [ state |-> "rejected", type |-> "error", value |-> e ]

\* the tail of share without its guard on the id
shareReturnUnguarded(id) == Fulfilled("https://shareg.pt/" \o TemplateString(id))

\* if (resJson.id) return `https://shareg.pt/${resJson.id}`
shareReturn(id) ==
    IF Truthy(id) THEN Fulfilled("https://shareg.pt/" \o TemplateString(id))
    ELSE FulfilledUndefined

\* the continuation that reads the id through optional chaining
afterJsonNullSafe(body) ==
    CASE body.kind = "invalid" -> Rejected("SyntaxError")
      [] OTHER -> shareReturn(body.id)

\* the continuation of share after await res.json(): the parse error and the
\* property read of null are not caught, so they reject the returned promise
afterJson(body) ==
    CASE body.kind = "invalid" -> Rejected("SyntaxError")
      [] body.kind = "null" -> Rejected("TypeError")
      [] OTHER -> shareReturn(body.id)

CIdle ==
    /\ selector = "undefined"
    /\ llm = "none"
    /\ file = "none"
    /\ spc = "idle"
    /\ shareArgs = NoArgs
    /\ request = NoRequest
    /\ response = NoResponse
    /\ result = Pending

HIdle ==
    /\ accessStore =
          [ isUseOpenAIEndpointForAllModels |-> FALSE, provider |-> "OpenAI",
            googleApiKey |-> <<>>, azureApiKey |-> <<>>, openaiApiKey |-> <<>>,
            enabledAccessControl |-> FALSE, accessCode |-> <<>> ]
    /\ modelConfig = [ model |-> <<"g", "p", "t", "-", "4">> ]
    /\ ignoreHeaders = "undefined"
    /\ headers = EmptyHeaders
    /\ hpc = "idle"

\* new ClientApi(provider)
New ==
    \E arg \in SelectorArgs :
        /\ llm = "none"
        /\ selector' = arg
        /\ llm' = ProviderClient(DefaultProvider(arg))
        /\ file' = "FileApi"
        /\ UNCHANGED <<clientConfig, spc, shareArgs, request, response, result>>
        /\ UNCHANGED hvars

\* share(messages, avatarUrl) up to its first await: the request is issued
Share ==
    \E messages \in MessageLists, avatar \in AvatarArgs :
        /\ llm # "none"
        /\ spc = "idle"
        /\ shareArgs' = [ messages |-> messages, avatarUrl |-> avatar ]
        /\ request' = ShareRequest(clientConfig, messages, DefaultAvatar(avatar))
        /\ response' = NoResponse
        /\ result' = Pending
        /\ spc' = "fetch"
        /\ UNCHANGED <<clientConfig, selector, llm, file>>
        /\ UNCHANGED hvars

\* await fetch(...) resolves: a response arrived, whatever its status and body
FetchResolves ==
    \E body \in ResponseBodies :
        /\ spc = "fetch"
        /\ response' = body
        /\ spc' = "json"
        /\ UNCHANGED <<clientConfig, selector, llm, file, shareArgs, request, result>>
        /\ UNCHANGED hvars

\* await fetch(...) rejects: nothing catches it, share rejects
FetchRejects ==
    /\ spc = "fetch"
    /\ response' = NetworkError
    /\ result' = Rejected("TypeError")
    /\ spc' = "done"
    /\ UNCHANGED <<clientConfig, selector, llm, file, shareArgs, request>>
    /\ UNCHANGED hvars

\* await res.json() settles and share runs to its end
ResJson ==
    /\ spc = "json"
    /\ result' = afterJson(response)
    /\ spc' = "done"
    /\ UNCHANGED <<clientConfig, selector, llm, file, shareArgs, request, response>>
    /\ UNCHANGED hvars

ClientInit == HIdle /\ CIdle /\ clientConfig \in ClientConfigs
ClientNext == New \/ Share \/ FetchResolves \/ FetchRejects \/ ResJson
SpecClient == ClientInit /\ [][ClientNext]_vars

\* a call of getHeaders(ignore): reads both stores, changes neither
GetHeaders ==
    \E ignore \in IgnoreHeadersArgs :
        /\ ignoreHeaders' = ignore
        /\ headers' = getHeaders(ignore, accessStore, modelConfig)
        /\ hpc' = "returned"
        /\ UNCHANGED <<accessStore, modelConfig>>
        /\ UNCHANGED cvars

HeadersInit == HInit /\ CIdle /\ clientConfig = "undefined"
HeadersNext == GetHeaders
SpecHeaders == HeadersInit /\ [][HeadersNext]_vars

(***************************************************************************)
(* Properties of getHeaders.  The vocabulary below restates the conditions *)
(* of the properties over the stores, independently of the operators that  *)
(* compute the headers.                                                    *)
(***************************************************************************)
Returned == hpc = "returned"

GeminiResolved ==
    /\ StartsWith(modelConfig.model, GeminiPrefix)
    /\ ~accessStore.isUseOpenAIEndpointForAllModels

AzureSelected == accessStore.provider = "Azure"

NonEmpty(x) == x # Undefined /\ x # <<>>

\* the personal key of the resolved provider
ResolvedKey ==
    IF GeminiResolved THEN accessStore.googleApiKey
    ELSE IF AzureSelected THEN accessStore.azureApiKey
    ELSE accessStore.openaiApiKey

Carries(name) == headers[name] # Undefined

AccessCodePath ==
    /\ ~NonEmpty(ResolvedKey)
    /\ accessStore.enabledAccessControl
    /\ NonEmpty(accessStore.accessCode)

AccessCredential == Trim(ACCESS_CODE_PREFIX \o accessStore.accessCode)

\* C1 as stated: for a Gemini-resolved model, whichever path supplies the
\* credential, it is carried under "x-goog-api-key" and not under "Authorization".
C1_AnyPathVendorHeader ==
    (Returned /\ GeminiResolved /\ (NonEmpty(ResolvedKey) \/ AccessCodePath))
        => (Carries("x-goog-api-key") /\ ~Carries("Authorization"))

\* C1 amended: for a Gemini-resolved model a personal Google key is carried under
\* "x-goog-api-key" and not under "Authorization"; a credential supplied by the
\* access-code path is carried under "Authorization" and not under "x-goog-api-key".
C1_VendorHeaderForPersonalKey ==
    (Returned /\ GeminiResolved) =>
        /\ NonEmpty(accessStore.googleApiKey) =>
              /\ headers["x-goog-api-key"] = Trim(accessStore.googleApiKey)
              /\ ~Carries("Authorization")
        /\ AccessCodePath =>
              /\ Carries("Authorization")
              /\ ~Carries("x-goog-api-key")

C1_Witness ==
    /\ Returned /\ GeminiResolved
    /\ NonEmpty(accessStore.googleApiKey)
    /\ headers["x-goog-api-key"] = <<"g">>

\* C2: when the resolved provider's personal key is non-empty, every credential
\* header carries that key (trimmed, bare or "Bearer "-prefixed), at least one such
\* header is present, and none carries the access-code credential, whatever
\* enabledAccessControl() and accessCode are.
C2_PersonalKeyPreferred ==
    (Returned /\ NonEmpty(ResolvedKey)) =>
        /\ \E n \in CredentialHeaders : Carries(n)
        /\ \A n \in CredentialHeaders :
              Carries(n) =>
                  /\ headers[n] \in { Trim(ResolvedKey), BearerPrefix \o Trim(ResolvedKey) }
                  /\ NonEmpty(accessStore.accessCode) =>
                        headers[n] \notin { AccessCredential, BearerPrefix \o AccessCredential }

C2_Witness ==
    /\ Returned /\ NonEmpty(ResolvedKey)
    /\ accessStore.enabledAccessControl
    /\ NonEmpty(accessStore.accessCode)
    /\ \E n \in CredentialHeaders : Carries(n)

\* C3 as stated: with Azure selected and its personal key present, "Authorization"
\* and "api-key" are both present and both carry the Azure key without "Bearer ",
\* for every model name and every value of the override flag.
C3_AzureBothHeadersEveryModel ==
    (Returned /\ AzureSelected /\ NonEmpty(accessStore.azureApiKey)) =>
        /\ headers["Authorization"] = Trim(accessStore.azureApiKey)
        /\ headers["api-key"] = Trim(accessStore.azureApiKey)

\* C3 amended: the same, provided the model is not Gemini-resolved; the value is
\* the Azure key trimmed of surrounding white space with nothing prepended.
C3_AzureBothHeaders ==
    (Returned /\ AzureSelected /\ ~GeminiResolved /\ NonEmpty(accessStore.azureApiKey)) =>
        /\ Carries("Authorization") /\ Carries("api-key")
        /\ headers["Authorization"] = headers["api-key"]
        /\ headers["api-key"] = Trim(accessStore.azureApiKey)

C3_Witness ==
    /\ Returned /\ AzureSelected /\ ~GeminiResolved
    /\ accessStore.azureApiKey = <<" ", "a", " ">>
    /\ headers["api-key"] = <<"a">>
    /\ StartsWith(modelConfig.model, GeminiPrefix)

C5_BaselineEveryModel ==
    (Returned /\ ignoreHeaders \in {"undefined", "false"}) =>
        /\ headers["Content-Type"] = ApplicationJson
        /\ headers["x-requested-with"] = XMLHttpRequest
        /\ headers["Accept"] = ApplicationJson

\* C5 amended: with the ignore-headers flag unset or false and a model that is not
\* Gemini-resolved, the three baseline JSON headers are present.
C5_BaselineUnlessGemini ==
    (Returned /\ ignoreHeaders \in {"undefined", "false"} /\ ~GeminiResolved) =>
        /\ headers["Content-Type"] = ApplicationJson
        /\ headers["x-requested-with"] = XMLHttpRequest
        /\ headers["Accept"] = ApplicationJson

C5_Witness ==
    /\ Returned /\ ignoreHeaders = "undefined" /\ ~GeminiResolved
    /\ headers["Accept"] = ApplicationJson
    /\ Carries("Authorization")

\* C6: with no personal key of the resolved provider and access control disabled,
\* the mapping carries none of "Authorization", "x-goog-api-key", "api-key".
C6_NoCredentialHeader ==
    (Returned /\ ~NonEmpty(ResolvedKey) /\ ~accessStore.enabledAccessControl) =>
        \A n \in CredentialHeaders : ~Carries(n)

C6_Witness ==
    /\ Returned /\ ~NonEmpty(ResolvedKey) /\ ~accessStore.enabledAccessControl
    /\ NonEmpty(accessStore.accessCode)
    /\ AzureSelected
    /\ headers["Accept"] = ApplicationJson

(***************************************************************************)
(* Properties of ClientApi                                                 *)
(***************************************************************************)
ShareDone == spc = "done"

\* the POST completed and its body parsed as JSON
ParsedJson == response.kind \in { "null", "number", "object" }

\* the parsed body contains an id
ContainsId == response.kind = "object" /\ response.id.type # "undefined"

IdText ==
    IF response.id.type = "number" THEN ToString(response.id.num) ELSE response.id.str

C9_ProviderBinding ==
    (llm # "none") =>
        /\ llm \in { "GeminiProApi", "ClaudeApi", "ChatGPTApi" }
        /\ selector = "GeminiPro" => llm = "GeminiProApi"
        /\ selector = "Claude" => llm = "ClaudeApi"
        /\ selector \notin { "GeminiPro", "Claude" } => llm = "ChatGPTApi"
        /\ file = "FileApi"

C9_Witness ==
    /\ selector = "Claude" /\ llm = "ClaudeApi" /\ file = "FileApi"
    /\ spc = "done"

Posted == spc # "idle"

ItemsWellFormed ==
    LET items == request.body.items
        messages == shareArgs.messages
        n == Len(messages)
    IN  /\ Len(items) = n + 1
        /\ \A i \in 1..n : items[i].value = messages[i].content
        /\ items[n + 1] = Attribution

\* C10 as stated: n messages give n+1 items, in order, each with the message's
\* content, "human" for user and "gpt" for assistant, then the attribution; a
\* system message is not sent as "gpt".
C10_OnlyUserAssistantRenamed ==
    Posted =>
        /\ ItemsWellFormed
        /\ \A i \in 1..Len(shareArgs.messages) :
              LET role == shareArgs.messages[i].role
                  from == request.body.items[i].from
              IN  /\ role = "user" => from = "human"
                  /\ role = "assistant" => from = "gpt"
                  /\ role = "system" => from # "gpt"

\* C10 amended: the same, except that from is "human" when the role is user and
\* "gpt" for every other role, so a system message is sent as "gpt" too.
C10_ItemsPosted ==
    Posted =>
        /\ ItemsWellFormed
        /\ request.method = "POST"
        /\ \A i \in 1..Len(shareArgs.messages) :
              LET role == shareArgs.messages[i].role
                  from == request.body.items[i].from
              IN  /\ role = "user" => from = "human"
                  /\ role # "user" => from = "gpt"

C10_Witness ==
    /\ Posted
    /\ Len(shareArgs.messages) = MaxMessages
    /\ shareArgs.messages[1].role = "system"
    /\ shareArgs.messages[2].role = "user"
    /\ request.body.items[1].from = "gpt"
    /\ request.body.items[2].from = "human"
    /\ Len(request.body.items) = MaxMessages + 1

====
